---- MODULE Spec2Model ----
(***************************************************************************)
(* A model of spotify2youtube.py: the transfer of a Spotify playlist to a  *)
(* YouTube Music playlist.                                                  *)
(*                                                                         *)
(* Representation of Python values                                         *)
(*   - an optional value (None, a missing dict key) is None or Some(v);    *)
(*   - a string the code parses (a variance string, a duration text) is a  *)
(*     sequence of one-character strings; a string the code only copies or *)
(*     compares (a track name, a video id) is a TLA+ string;               *)
(*   - a float amount of seconds or of percent is the integer number of    *)
(*     thousandths (3.0 is 3000), so every comparison of the code is exact *)
(*     rational arithmetic; binary floating-point rounding is not modelled.*)
(***************************************************************************)
EXTENDS Integers, Sequences, FiniteSets, TLC

VARIABLES
    pc,                  \* position of main / of the function under study
    error,               \* the exception that ended the run, "" when none
    (* inputs of main *)
    variance_opt,        \* --variance CLI option
    env_variance,        \* os.getenv('VARIANCE')
    env_variance_mode,   \* os.getenv('VARIANCE_MODE')
    tracks,              \* the items main iterates over
    (* locals of main *)
    variance_amount, variance_mode,
    i,                   \* 1-based position of the next item of the track loop
    video_ids, unmatched_tracks, duration_mismatches, duration_skipped,
    yt_playlist_id,
    (* locals of add_tracks_to_playlist *)
    valid_video_ids, batch_i,
    (* calls made to the YouTube Music client, in order *)
    searchLog, createLog, addLog,
    (* search_youtube_music_track studied alone *)
    search_response, search_outcome,
    (* get_spotify_playlist: the cache file of the playlist, the clock, the
       arguments, the playlist at the source, the locals, how the call ended *)
    cache_file, now,
    g_pc, use_cache, limit, source_pages,
    fetched_playlist, fetched_tracks, page_k,
    g_ret, g_error,
    api_calls, cache_writes

vars == << pc, error, variance_opt, env_variance, env_variance_mode, tracks,
           variance_amount, variance_mode, i, video_ids, unmatched_tracks,
           duration_mismatches, duration_skipped, yt_playlist_id,
           valid_video_ids, batch_i, searchLog, createLog, addLog,
           search_response, search_outcome, cache_file, now, g_pc, use_cache,
           limit, source_pages, fetched_playlist, fetched_tracks, page_k,
           g_ret, g_error, api_calls, cache_writes >>

(***************************************************************************)
(* Python values                                                           *)
(***************************************************************************)
None == [some |-> FALSE]
Some(v) == [some |-> TRUE, val |-> v]

\* dict.get(key, default) on an optional field
Get(field, default) == IF field = None THEN default ELSE field.val

Min(S) == CHOOSE x \in S : \A y \in S : x <= y

Abs(n) == IF n < 0 THEN -n ELSE n

Range(s) == { s[k] : k \in 1..Len(s) }

(***************************************************************************)
(* Strings as sequences of characters                                      *)
(***************************************************************************)
Digits == << "0", "1", "2", "3", "4", "5", "6", "7", "8", "9" >>

IsDigit(c) == \E d \in 1..10 : Digits[d] = c

DigitVal(c) == (CHOOSE d \in 1..10 : Digits[d] = c) - 1

IsSpace(c) == c \in { " ", "\t", "\n" }

\* str.lower() on the letters the inputs use
LowerChar(c) ==
    CASE c = "S" -> "s" [] c = "E" -> "e" [] c = "C" -> "c" [] c = "P" -> "p"
      [] c = "R" -> "r" [] c = "N" -> "n" [] c = "T" -> "t" [] c = "O" -> "o"
      [] c = "D" -> "d" [] OTHER -> c

lower(s) == [ k \in 1..Len(s) |-> LowerChar(s[k]) ]

\* str.strip(): drop leading and trailing whitespace
strip(s) ==
    LET keep == { k \in 1..Len(s) : ~IsSpace(s[k]) }
    IN  IF keep = {} THEN << >>
        ELSE SubSeq(s, Min(keep), CHOOSE k \in keep : \A j \in keep : j <= k)

\* number of leading decimal digits of s
LeadingDigits(s) ==
    CHOOSE n \in 0..Len(s) :
        /\ \A k \in 1..n : IsDigit(s[k])
        /\ n = Len(s) \/ ~IsDigit(s[n + 1])

\* value of a string of decimal digits
RECURSIVE DigitsValue(_)
DigitsValue(s) ==
    IF s = << >> THEN 0
    ELSE 10 * DigitsValue(SubSeq(s, 1, Len(s) - 1)) + DigitVal(s[Len(s)])

\* str.split(sep): the parts of s between occurrences of sep
RECURSIVE split(_, _)
split(s, sep) ==
    LET at == { k \in 1..Len(s) : s[k] = sep }
    IN  IF at = {} THEN << s >>
        ELSE << SubSeq(s, 1, Min(at) - 1) >>
               \o split(SubSeq(s, Min(at) + 1, Len(s)), sep)

Str_s == << "s" >>
Str_sec == << "s", "e", "c" >>
Str_secs == << "s", "e", "c", "s" >>
Str_second == << "s", "e", "c", "o", "n", "d" >>
Str_seconds == << "s", "e", "c", "o", "n", "d", "s" >>
Str_pct == << "%" >>
Str_percent == << "p", "e", "r", "c", "e", "n", "t" >>
Str_perc == << "p", "e", "r", "c" >>

(***************************************************************************)
(* parse_variance                                                          *)
(***************************************************************************)
\* the suffix alternatives of the regular expression
VarianceSuffixes ==
    { Str_s, Str_sec, Str_secs, Str_second, Str_seconds,
      Str_pct, Str_percent, Str_perc }

\* re.fullmatch(r"(\d+(?:\.\d+)?)(s|sec|...|perc)?", value): None, or the
\* two groups; a suffix group that did not take part is the empty string
VarianceMatch(value) ==
    LET n1 == LeadingDigits(value)
        rest == SubSeq(value, n1 + 1, Len(value))
        hasFrac == /\ Len(rest) >= 2
                   /\ rest[1] = "."
                   /\ IsDigit(rest[2])
        n2 == IF hasFrac THEN LeadingDigits(Tail(rest)) ELSE 0
        numLen == IF hasFrac THEN n1 + 1 + n2 ELSE n1
        suffix == SubSeq(value, numLen + 1, Len(value))
    IN  IF n1 >= 1 /\ (suffix = << >> \/ suffix \in VarianceSuffixes)
        THEN Some([ num_str |-> SubSeq(value, 1, numLen), suffix |-> suffix ])
        ELSE None

\* float(num_str) in thousandths, for at most three decimals
float(num_str) ==
    LET n1 == LeadingDigits(num_str)
        frac == SubSeq(num_str, n1 + 2, Len(num_str))
        scale == CASE Len(frac) = 0 -> 0 [] Len(frac) = 1 -> 100
                   [] Len(frac) = 2 -> 10 [] OTHER -> 1
    IN  1000 * DigitsValue(SubSeq(num_str, 1, n1)) + scale * DigitsValue(frac)

parse_variance(value) ==
    IF value = None \/ value.val = << >>
    THEN [ amount |-> None, mode |-> "seconds" ]
    ELSE LET match == VarianceMatch(lower(strip(value.val)))
         IN  IF match = None
             THEN [ amount |-> None, mode |-> "seconds" ]
             ELSE LET amount == float(match.val.num_str)
                      suffix == match.val.suffix
                  IN  IF suffix = << >>
                      THEN [ amount |-> Some(amount), mode |-> "seconds" ]
                      ELSE IF suffix \in { Str_pct, Str_percent, Str_perc }
                      THEN [ amount |-> Some(amount), mode |-> "percent" ]
                      ELSE [ amount |-> Some(amount), mode |-> "seconds" ]

(***************************************************************************)
(* main: the variance settings (CLI overrides env)                         *)
(***************************************************************************)
\* the tolerance used when no valid variance is given: 3.0, in thousandths
DefaultVariance == 3000

\* variance_opt or env_variance
VarianceStr(cli, env) ==
    IF cli # None /\ cli.val # << >> THEN cli ELSE env

\* the explicit mode override of VARIANCE_MODE
ModeOverride(env_mode, parsed_mode) ==
    IF env_mode = None \/ env_mode.val = << >> THEN parsed_mode
    ELSE LET mode == lower(strip(env_mode.val))
         IN  IF mode \in { Str_seconds, Str_second, Str_sec, Str_s }
             THEN "seconds"
             ELSE IF mode \in { Str_percent, Str_pct, Str_perc }
             THEN "percent"
             ELSE parsed_mode

\* a variant that leaves out the default of 3 seconds
DetermineVarianceNoDefault(cli, env, env_mode) ==
    LET parsed == parse_variance(VarianceStr(cli, env))
    IN  [ amount |-> parsed.amount,
          mode |-> ModeOverride(env_mode, parsed.mode) ]

DetermineVariance(cli, env, env_mode) ==
    LET parsed == parse_variance(VarianceStr(cli, env))
        defaulted == IF parsed.amount = None
                     THEN [ amount |-> Some(DefaultVariance), mode |-> "seconds" ]
                     ELSE parsed
    IN  [ amount |-> defaulted.amount,
          mode |-> ModeOverride(env_mode, defaulted.mode) ]

(***************************************************************************)
(* search_youtube_music_track                                              *)
(*                                                                         *)
(* A response of ytmusic.search is [raises, results]; a result is          *)
(* [resultType, videoId, title, artists, duration], each field None when   *)
(* its key is missing.  A video id is [isStr, s]: a Python string s, or a  *)
(* null (isStr FALSE).  artists is a list of optional names.               *)
(* A call ends [raised, exc, value]: an exception, or the returned value.  *)
(***************************************************************************)
Raised(exc) == [ raised |-> TRUE, exc |-> exc, value |-> None ]
Returned(v) == [ raised |-> FALSE, exc |-> "", value |-> v ]

\* int(p) for every part: None when some part is not a decimal number
IntParts(parts) ==
    IF \A k \in 1..Len(parts) :
           /\ parts[k] # << >>
           /\ \A j \in 1..Len(parts[k]) : IsDigit(parts[k][j])
    THEN Some([ k \in 1..Len(parts) |-> DigitsValue(parts[k]) ])
    ELSE None

\* the duration text ('3:45' or '1:02:03') in seconds, None when it is
\* missing, empty or malformed
duration_seconds(duration_text) ==
    IF duration_text = None \/ duration_text.val = << >> THEN None
    ELSE LET parts == IntParts(split(duration_text.val, ":"))
         IN  IF parts = None THEN None
             ELSE IF Len(parts.val) = 3
             THEN Some(parts.val[1] * 3600 + parts.val[2] * 60 + parts.val[3])
             ELSE IF Len(parts.val) = 2
             THEN Some(parts.val[1] * 60 + parts.val[2])
             ELSE None

\* the dict built from the selected result; result['videoId'] raises
\* KeyError when the key is missing, artists[0] raises IndexError when the
\* artist list is empty
BuildTrackInfo(result) ==
    IF result.videoId = None THEN Raised("KeyError")
    ELSE IF result.artists # None /\ result.artists.val = << >>
    THEN Raised("IndexError")
    ELSE Returned(Some(
           [ videoId |-> result.videoId.val,
             title |-> Get(result.title, "Unknown Title"),
             artist |-> Get(Get(result.artists, << None >>)[1], "Unknown Artist"),
             duration_seconds |-> duration_seconds(result.duration) ]))

\* the result type the loop looks for
IsSong(result) == result.resultType = Some("song")

\* for result in results: return at the first result of type 'song'
RECURSIVE SearchLoop(_, _)
SearchLoop(results, k) ==
    IF k > Len(results) THEN Returned(None)
    ELSE IF IsSong(results[k]) THEN BuildTrackInfo(results[k])
    ELSE SearchLoop(results, k + 1)

\* the number of results asked of ytmusic.search
SearchLimit == 5

\* the query
SearchQuery(track_name, artist_name) == << track_name, " ", artist_name >>

search_youtube_music_track(response) ==
    IF response.raises THEN Raised("SearchError")
    ELSE SearchLoop(response.results, 1)

(***************************************************************************)
(* main: one item of the track loop                                        *)
(*                                                                         *)
(* An item is [track]: None when the item has no track payload, else       *)
(* [name, artists, duration_ms], each None when the key is missing.        *)
(***************************************************************************)
TrackName(track) == Get(track.name, "Unknown Track")

\* track.get('artists', [{}])[0] raises IndexError on an empty artist list
ArtistsEmpty(track) == track.artists # None /\ track.artists.val = << >>

ArtistName(track) == Get(Get(track.artists, << None >>)[1], "Unknown Artist")

\* track.get('duration_ms') or 0
SpotifyDurationMs(track) == Get(track.duration_ms, 0)

\* f"{track_name} - {artist_name}"
TrackLabel(track) == << TrackName(track), " - ", ArtistName(track) >>

\* a variant that counts a difference equal to the threshold as a mismatch
IsMismatchInclusive(spotify_duration_ms, yt_duration_sec, amount, mode) ==
    LET diff_ms == Abs(spotify_duration_ms - 1000 * yt_duration_sec)
    IN  IF mode = "seconds"
        THEN diff_ms >= amount
        ELSE /\ spotify_duration_ms > 0
             /\ diff_ms * 100 >= (amount * spotify_duration_ms) \div 1000

\* is_mismatch, for a source duration in ms, a destination duration in
\* seconds and an amount in thousandths of a second or of a percent:
\*   diff_sec > variance_amount
\*   spotify_duration_sec > 0 and diff_sec / spotify_duration_sec * 100 > variance_amount
\* The second, diff_ms * 100000 > amount * spotify_duration_ms in integers, is
\* written with the division on the right to stay within 32 bits.
IsMismatch(spotify_duration_ms, yt_duration_sec, amount, mode) ==
    LET diff_ms == Abs(spotify_duration_ms - 1000 * yt_duration_sec)
    IN  IF mode = "seconds"
        THEN diff_ms > amount
        ELSE /\ spotify_duration_ms > 0
             /\ diff_ms > (amount * spotify_duration_ms) \div 100000

\* a variant that tests the destination duration before the source duration
DurationCheckDestinationFirst(track, track_info, amount, mode) ==
    LET skip(reason) ==
            [ mismatches |-> << >>,
              skipped |-> << [ track_name |-> TrackName(track),
                               artist_name |-> ArtistName(track),
                               reason |-> reason ] >> ]
    IN  IF track_info.duration_seconds = None
        THEN skip("missing YouTube duration")
        ELSE IF SpotifyDurationMs(track) = 0
        THEN skip("missing Spotify duration")
        ELSE [ mismatches |-> << >>, skipped |-> << >> ]

\* what a found track appends to duration_mismatches and duration_skipped
DurationCheck(track, track_info, amount, mode) ==
    LET spotify_duration_ms == SpotifyDurationMs(track)
        yt_duration_sec == track_info.duration_seconds
        nothing == [ mismatches |-> << >>, skipped |-> << >> ]
        skip(reason) ==
            [ mismatches |-> << >>,
              skipped |-> << [ track_name |-> TrackName(track),
                               artist_name |-> ArtistName(track),
                               reason |-> reason ] >> ]
    IN  IF amount = None THEN nothing
        ELSE IF spotify_duration_ms = 0 THEN skip("missing Spotify duration")
        ELSE IF yt_duration_sec = None THEN skip("missing YouTube duration")
        ELSE IF IsMismatch(spotify_duration_ms, yt_duration_sec.val,
                           amount.val, mode)
        THEN [ mismatches |->
                 << [ track_name |-> TrackName(track),
                      artist_name |-> ArtistName(track),
                      spotify_duration_sec |-> spotify_duration_ms,
                      yt_duration_sec |-> yt_duration_sec.val,
                      diff_sec |-> Abs(spotify_duration_ms
                                        - 1000 * yt_duration_sec.val) ] >>,
               skipped |-> << >> ]
        ELSE nothing

\* a variant that withholds the identifier of a track whose destination
\* duration is unknown
FoundIdsWithDuration(track_info) ==
    IF track_info.duration_seconds = None THEN << >>
    ELSE << track_info.videoId >>

\* the identifiers a found track appends to video_ids
FoundIds(track_info) == << track_info.videoId >>

\* a variant that forgets a track that has no name
NotFoundLabelsNamed(track) ==
    IF track.name = None THEN << >> ELSE << TrackLabel(track) >>

\* the labels a track that was not found appends to unmatched_tracks
NotFoundLabels(track) == << TrackLabel(track) >>

(***************************************************************************)
(* get_spotify_playlist                                                    *)
(*                                                                         *)
(* The cache file of the playlist is None (no file) or Some of its         *)
(* content [valid_json, value]: value is what json.load returns, None when *)
(* the JSON text is not an object, else the object [playlist, tracks,      *)
(* cached_at], each field None when the key is missing.  A cached_at value *)
(* is [kind, t]: an ISO-8601 timestamp of time t ("iso"), another string   *)
(* ("badstr") or not a string ("nonstr").  Time is counted in days.        *)
(***************************************************************************)
\* the default of cache_expiry_days
CacheExpiryDays == 7

MaxNow == 8

json_load(file) ==
    IF file.valid_json THEN Returned(file.value) ELSE Raised("JSONDecodeError")

json_dump(object) == [ valid_json |-> TRUE, value |-> Some(object) ]

\* datetime.isoformat and datetime.fromisoformat
isoformat(t) == [ kind |-> "iso", t |-> t ]

fromisoformat(value) ==
    CASE value.kind = "iso" -> Returned(value.t)
      [] value.kind = "badstr" -> Raised("ValueError")
      [] OTHER -> Raised("TypeError")

\* the exceptions the cache read catches
CaughtByCacheRead == { "JSONDecodeError", "KeyError" }

CacheHit(playlist, cached_tracks) ==
    [ kind |-> "hit", exc |-> "", playlist |-> playlist, tracks |-> cached_tracks ]
CacheMiss == [ kind |-> "miss", exc |-> "", playlist |-> "", tracks |-> << >> ]
CacheRaise(exc) ==
    IF exc \in CaughtByCacheRead THEN CacheMiss
    ELSE [ kind |-> "raise", exc |-> exc, playlist |-> "", tracks |-> << >> ]

\* a variant that still reads an entry on the day it expires
IsFreshInclusive(cache_time, t_now) == t_now - cache_time <= CacheExpiryDays

\* datetime.now() - cache_time < timedelta(days=cache_expiry_days)
IsFresh(cache_time, t_now) == t_now - cache_time < CacheExpiryDays

\* the try block that reads the cache file, at time t_now
CacheLookup(file, t_now) ==
    LET loaded == json_load(file)
    IN  IF loaded.raised THEN CacheRaise(loaded.exc)
        ELSE IF loaded.value = None THEN CacheRaise("TypeError")
        ELSE LET cached_data == loaded.value.val
             IN  IF cached_data.cached_at = None THEN CacheRaise("KeyError")
                 ELSE LET cache_time == fromisoformat(cached_data.cached_at.val)
                      IN  IF cache_time.raised THEN CacheRaise(cache_time.exc)
                          ELSE IF IsFresh(cache_time.value, t_now)
                          THEN IF cached_data.playlist = None
                                  \/ cached_data.tracks = None
                               THEN CacheRaise("KeyError")
                               ELSE CacheHit(cached_data.playlist.val,
                                             cached_data.tracks.val)
                          ELSE CacheMiss

\* tracks[:limit] when a limit is given
ApplyLimit(ts, lim) ==
    IF lim = None \/ lim.val = 0 THEN ts
    ELSE SubSeq(ts, 1, IF lim.val < Len(ts) THEN lim.val ELSE Len(ts))

\* the entry a successful fetch writes
CacheData(playlist, ts, t_now) ==
    [ playlist |-> Some(playlist), tracks |-> Some(ts),
      cached_at |-> Some(isoformat(t_now)) ]

Entry(playlist, ts, cached_at) ==
    [ valid_json |-> TRUE,
      value |-> Some([ playlist |-> playlist, tracks |-> ts,
                       cached_at |-> cached_at ]) ]

\* the cache files a call can find
CacheFiles ==
    { None,
      Some([ valid_json |-> FALSE, value |-> None ]),
      Some([ valid_json |-> TRUE, value |-> None ]),
      Some(Entry(Some("P0"), Some(<< "t1" >>), Some(isoformat(0)))),
      Some(Entry(None, Some(<< "t1" >>), Some(isoformat(0)))),
      Some(Entry(Some("P0"), None, Some(isoformat(0)))),
      Some(Entry(Some("P0"), Some(<< "t1" >>), None)),
      Some(Entry(Some("P0"), Some(<< "t1" >>),
                 Some([ kind |-> "badstr", t |-> 0 ]))),
      Some(Entry(Some("P0"), Some(<< "t1" >>),
                 Some([ kind |-> "nonstr", t |-> 0 ]))) }

\* the pages of the playlist at the source
PageLists ==
    { << << "t1" >> >>,
      << << "t1", "t2" >>, << "t3" >> >>,
      << << "t2" >>, << >>, << "t2", "t1" >> >> }

\* what sp.playlist returns
Playlists == { "P1", "P2" }

Limits == { None, Some(2) }

cacheVars == << cache_file, now, g_pc, use_cache, limit, source_pages,
                fetched_playlist, fetched_tracks, page_k, g_ret, g_error,
                api_calls, cache_writes >>

callVars == << use_cache, limit, source_pages >>

\* no call of get_spotify_playlist is under way
CallIdle ==
    /\ g_pc = "idle"
    /\ use_cache = TRUE
    /\ limit = None
    /\ source_pages = << >>
    /\ fetched_playlist = ""
    /\ fetched_tracks = << >>
    /\ page_k = 0
    /\ g_ret = None
    /\ g_error = ""
    /\ api_calls = 0
    /\ cache_writes = 0

CacheIdle ==
    /\ cache_file = None
    /\ now = 0
    /\ CallIdle

(***************************************************************************)
(* The inputs the model draws from                                         *)
(***************************************************************************)
MaxTracks == 2

Vid(s) == [ isStr |-> TRUE, s |-> s ]
NullVid == [ isStr |-> FALSE, s |-> "" ]

Result(type, vid, artists, duration) ==
    [ resultType |-> type, videoId |-> vid, title |-> Some("Title"),
      artists |-> artists, duration |-> duration ]

Song(vid, duration) ==
    Result(Some("song"), Some(Vid(vid)), Some(<< Some("Artist") >>), duration)

Video(vid) ==
    Result(Some("video"), Some(Vid(vid)), Some(<< Some("Artist") >>),
           Some(<< "3", ":", "0", "0" >>))

Answer(results) == [ raises |-> FALSE, results |-> results ]
SearchFails == [ raises |-> TRUE, results |-> << >> ]

Track(name, artist, duration_ms) ==
    [ track |-> Some([ name |-> Some(name),
                       artists |-> Some(<< Some(artist) >>),
                       duration_ms |-> duration_ms ]) ]

\* the items of a source playlist
SourceItems ==
    { [ track |-> None ],
      Track("A", "X", Some(190000)),
      Track("B", "Y", None),
      Track("C", "Z", Some(0)),
      [ track |-> Some([ name |-> None, artists |-> Some(<< None >>),
                         duration_ms |-> Some(200000) ]) ],
      [ track |-> Some([ name |-> Some("D"), artists |-> Some(<< >>),
                         duration_ms |-> Some(190000) ]) ] }

TrackLists == UNION { [ 1..n -> SourceItems ] : n \in 0..MaxTracks }

\* what ytmusic.search answers to one query of the track loop
SearchResponses ==
    { SearchFails,
      Answer(<< >>),
      Answer(<< Video("vid00000001"),
                Song("abc12345678", Some(<< "3", ":", "1", "3" >>)) >>),
      Answer(<< Song("xyz98765432", Some(<< "3", ":", "1", "4" >>)) >>),
      Answer(<< Song("abc12345678", None) >>),
      Answer(<< Song("abc12345678", Some(<< "3", ":", "2", "2" >>)) >>),
      Answer(<< Song("short", Some(<< "3", ":", "2", "3" >>)) >>),
      Answer(<< Result(Some("song"), Some(Vid("abc12345678")), Some(<< >>),
                       None) >>) }

\* (--variance, VARIANCE, VARIANCE_MODE) of a run of main
MainInputs ==
    { << None, None, None >>,
      << Some(<< "1", "%" >>), Some(<< "9", "s" >>), None >>,
      << None, Some(<< "2", ".", "5" >>), Some(<< "s", "e", "c" >>) >> }

\* what ytmusic.create_playlist does: a playlist id, a falsy id, an exception
CreateOutcomes ==
    { Returned(Some("PL1")), Returned(Some("")), Raised("CreateError") }

\* what ytmusic.add_playlist_items does
AddOutcomes == { "STATUS_SUCCEEDED", "STATUS_FAILED", "raises" }

NoResponse == Answer(<< >>)

(***************************************************************************)
(* main                                                                    *)
(***************************************************************************)
inputVars == << variance_opt, env_variance, env_variance_mode, tracks >>
varianceVars == << variance_amount, variance_mode >>
bucketVars == << video_ids, unmatched_tracks, duration_mismatches,
                 duration_skipped >>
addVars == << valid_video_ids, batch_i, addLog >>
searchVars == << search_response, search_outcome >>

Init ==
    /\ pc = "start"
    /\ error = ""
    /\ \E inp \in MainInputs :
           /\ variance_opt = inp[1]
           /\ env_variance = inp[2]
           /\ env_variance_mode = inp[3]
    /\ tracks \in TrackLists
    /\ variance_amount = None
    /\ variance_mode = "seconds"
    /\ i = 1
    /\ video_ids = << >>
    /\ unmatched_tracks = << >>
    /\ duration_mismatches = << >>
    /\ duration_skipped = << >>
    /\ yt_playlist_id = None
    /\ valid_video_ids = << >>
    /\ batch_i = 0
    /\ searchLog = << >>
    /\ createLog = << >>
    /\ addLog = << >>
    /\ search_response = NoResponse
    /\ search_outcome = Returned(None)
    /\ CacheIdle

\* except Exception as e: ... return
Abort(exc) ==
    /\ pc' = "done"
    /\ error' = exc

\* the clients are initialised, the playlist is fetched and the user is
\* asked to confirm; any of these can end the run before the track loop
Start ==
    /\ pc = "start"
    /\ \E outcome \in { "ok", "no_client", "fetch_raises", "cancelled" } :
           CASE outcome = "ok" -> pc' = "variance" /\ error' = error
             [] outcome = "fetch_raises" -> Abort("FetchError")
             [] OTHER -> pc' = "done" /\ error' = error
    /\ UNCHANGED << inputVars, varianceVars, i, bucketVars, yt_playlist_id,
                    addVars, searchLog, createLog, searchVars, cacheVars >>

\* the variance settings are determined and the buckets are emptied
SetVariance ==
    /\ pc = "variance"
    /\ LET v == DetermineVariance(variance_opt, env_variance, env_variance_mode)
       IN  /\ variance_amount' = v.amount
           /\ variance_mode' = v.mode
    /\ video_ids' = << >>
    /\ unmatched_tracks' = << >>
    /\ duration_mismatches' = << >>
    /\ duration_skipped' = << >>
    /\ i' = 1
    /\ pc' = "loop"
    /\ UNCHANGED << error, inputVars, yt_playlist_id, addVars, searchLog,
                    createLog, searchVars, cacheVars >>

\* an item with no track payload is skipped
SkipNonTrack ==
    /\ pc = "loop"
    /\ i <= Len(tracks)
    /\ tracks[i].track = None
    /\ i' = i + 1
    /\ UNCHANGED << pc, error, inputVars, varianceVars, bucketVars,
                    yt_playlist_id, addVars, searchLog, createLog, searchVars, cacheVars >>

\* the artist list of the source track is empty: IndexError, before any search
SourceArtistRaises ==
    /\ pc = "loop"
    /\ i <= Len(tracks)
    /\ tracks[i].track # None
    /\ ArtistsEmpty(tracks[i].track.val)
    /\ Abort("IndexError")
    /\ UNCHANGED << inputVars, varianceVars, i, bucketVars, yt_playlist_id,
                    addVars, searchLog, createLog, searchVars, cacheVars >>

\* the call of search_youtube_music_track made for item i
SearchCall(response) ==
    [ item |-> i,
      query |-> SearchQuery(TrackName(tracks[i].track.val),
                            ArtistName(tracks[i].track.val)),
      limit |-> SearchLimit,
      response |-> response ]

\* the item is searched and filed
SearchTrack ==
    /\ pc = "loop"
    /\ i <= Len(tracks)
    /\ tracks[i].track # None
    /\ ~ArtistsEmpty(tracks[i].track.val)
    /\ \E response \in SearchResponses :
         LET track == tracks[i].track.val
             outcome == search_youtube_music_track(response)
         IN  /\ searchLog' = Append(searchLog, SearchCall(response))
             /\ IF outcome.raised
                THEN /\ Abort(outcome.exc)
                     /\ UNCHANGED << i, bucketVars >>
                ELSE /\ UNCHANGED << pc, error >>
                     /\ i' = i + 1
                     /\ IF outcome.value # None
                        THEN LET check == DurationCheck(track, outcome.value.val,
                                                        variance_amount,
                                                        variance_mode)
                             IN  /\ video_ids' =
                                      video_ids \o FoundIds(outcome.value.val)
                                 /\ duration_mismatches' =
                                      duration_mismatches \o check.mismatches
                                 /\ duration_skipped' =
                                      duration_skipped \o check.skipped
                                 /\ UNCHANGED unmatched_tracks
                        ELSE /\ unmatched_tracks' =
                                  unmatched_tracks \o NotFoundLabels(track)
                             /\ UNCHANGED << video_ids, duration_mismatches,
                                             duration_skipped >>
    /\ UNCHANGED << inputVars, varianceVars, yt_playlist_id, addVars,
                    createLog, searchVars, cacheVars >>

\* a variant without the test for an empty add-list
AlwaysTracksToAdd == TRUE

\* if not video_ids: return
HasTracksToAdd == video_ids # << >>

\* no track was found: nothing to add
NothingFound ==
    /\ pc = "loop"
    /\ i > Len(tracks)
    /\ ~HasTracksToAdd
    /\ pc' = "done"
    /\ UNCHANGED << error, inputVars, varianceVars, i, bucketVars,
                    yt_playlist_id, addVars, searchLog, createLog, searchVars, cacheVars >>

\* create_youtube_music_playlist, and main's test of the id it returns
CreatePlaylist ==
    /\ pc = "loop"
    /\ i > Len(tracks)
    /\ HasTracksToAdd
    /\ \E outcome \in CreateOutcomes :
           /\ createLog' = Append(createLog, outcome)
           /\ IF outcome.raised
              THEN Abort(outcome.exc) /\ UNCHANGED yt_playlist_id
              ELSE /\ yt_playlist_id' = outcome.value
                   /\ pc' = IF outcome.value.val = "" THEN "done" ELSE "add"
                   /\ UNCHANGED error
    /\ UNCHANGED << inputVars, varianceVars, i, bucketVars, addVars,
                    searchLog, searchVars, cacheVars >>

(***************************************************************************)
(* add_tracks_to_playlist                                                  *)
(***************************************************************************)
\* the length of a video id
VideoIdLen == 11

\* the most identifiers one add_playlist_items request takes
BatchSize == 100

\* vid and isinstance(vid, str) and len(vid) == 11
IsValidVideoId(vid) == vid.isStr /\ vid.s # "" /\ Len(vid.s) = VideoIdLen

\* valid_video_ids[i:i+100], for a 0-based i
Batch(ids, start) ==
    SubSeq(ids, start + 1,
           IF start + BatchSize < Len(ids) THEN start + BatchSize ELSE Len(ids))

\* the start of the batch after the one at start
NextBatchStart(start) == start + BatchSize

\* the function is entered: nothing to do without a valid video id
AddStart ==
    /\ pc = "add"
    /\ valid_video_ids' = SelectSeq(video_ids, IsValidVideoId)
    /\ batch_i' = 0
    /\ pc' = IF video_ids = << >> \/ valid_video_ids' = << >>
             THEN "report" ELSE "batch"
    /\ UNCHANGED << error, inputVars, varianceVars, i, bucketVars,
                    yt_playlist_id, addLog, searchLog, createLog, searchVars, cacheVars >>

\* a variant in which a failed batch ends the loop
AddBatchStopsOnFailure ==
    /\ pc = "batch"
    /\ batch_i < Len(valid_video_ids)
    /\ \E outcome \in AddOutcomes :
           /\ addLog' = Append(addLog,
                               [ playlist_id |-> yt_playlist_id,
                                 batch |-> Batch(valid_video_ids, batch_i),
                                 outcome |-> outcome ])
           /\ pc' = IF outcome # "raises"
                       /\ NextBatchStart(batch_i) < Len(valid_video_ids)
                    THEN "batch" ELSE "report"
    /\ batch_i' = NextBatchStart(batch_i)
    /\ UNCHANGED << error, inputVars, varianceVars, i, bucketVars,
                    yt_playlist_id, valid_video_ids, searchLog, createLog,
                    searchVars, cacheVars >>

\* one batch is submitted; a failure is reported and the loop goes on
AddBatch ==
    /\ pc = "batch"
    /\ batch_i < Len(valid_video_ids)
    /\ \E outcome \in AddOutcomes :
           addLog' = Append(addLog,
                            [ playlist_id |-> yt_playlist_id,
                              batch |-> Batch(valid_video_ids, batch_i),
                              outcome |-> outcome ])
    /\ batch_i' = NextBatchStart(batch_i)
    /\ pc' = IF batch_i' < Len(valid_video_ids) THEN "batch" ELSE "report"
    /\ UNCHANGED << error, inputVars, varianceVars, i, bucketVars,
                    yt_playlist_id, valid_video_ids, searchLog, createLog,
                    searchVars, cacheVars >>

\* the final report of main
Finish ==
    /\ pc = "report"
    /\ pc' = "done"
    /\ UNCHANGED << error, inputVars, varianceVars, i, bucketVars,
                    yt_playlist_id, addVars, searchLog, createLog, searchVars, cacheVars >>

Next ==
    \/ Start
    \/ SetVariance
    \/ SkipNonTrack
    \/ SourceArtistRaises
    \/ SearchTrack
    \/ NothingFound
    \/ CreatePlaylist
    \/ AddStart
    \/ AddBatch
    \/ Finish

Spec == Init /\ [][Next]_vars

(***************************************************************************)
(* The variance settings studied alone                                     *)
(***************************************************************************)
\* values of --variance and of VARIANCE
VarianceStrings ==
    { None,
      Some(<< >>),
      Some(<< "5" >>),
      Some(<< "5", "s" >>),
      Some(<< "5", "%" >>),
      Some(<< "a", "b", "c" >>),
      Some(<< " ", "5", "S", " " >>),
      Some(<< "2", ".", "5", "s", "e", "c" >>),
      Some(<< "5", "." >>),
      Some(<< ".", "5" >>),
      Some(<< "1", ".", "2", "5", "p", "e", "r", "c", "e", "n", "t" >>),
      Some(<< "0" >>),
      Some(<< "5", " ", "s" >>),
      Some(<< "1", "0", "p", "e", "r", "c" >>),
      Some(<< "3", "s", "e", "c", "o", "n", "d", "s" >>),
      Some(<< "-", "3" >>) }

\* values of VARIANCE_MODE
ModeStrings ==
    { None,
      Some(<< >>),
      Some(<< "p", "e", "r", "c", "e", "n", "t" >>),
      Some(<< " ", "P", "e", "r", "c", "e", "n", "t", " " >>),
      Some(<< "%" >>),
      Some(<< "p", "e", "r", "c" >>),
      Some(<< "s", "e", "c", "o", "n", "d", "s" >>),
      Some(<< "s", "e", "c", "o", "n", "d" >>),
      Some(<< "s", "e", "c" >>),
      Some(<< "S" >>),
      Some(<< "m", "i", "n", "u", "t", "e", "s" >>),
      Some(<< "p", "c", "t" >>) }

\* main at the point where it determines the variance settings
InitVariance ==
    /\ pc = "variance"
    /\ error = ""
    /\ variance_opt \in VarianceStrings
    /\ env_variance \in VarianceStrings
    /\ env_variance_mode \in ModeStrings
    /\ tracks = << >>
    /\ variance_amount = None
    /\ variance_mode = "seconds"
    /\ i = 1
    /\ video_ids = << >>
    /\ unmatched_tracks = << >>
    /\ duration_mismatches = << >>
    /\ duration_skipped = << >>
    /\ yt_playlist_id = None
    /\ valid_video_ids = << >>
    /\ batch_i = 0
    /\ searchLog = << >>
    /\ createLog = << >>
    /\ addLog = << >>
    /\ search_response = NoResponse
    /\ search_outcome = Returned(None)
    /\ CacheIdle

NextVariance == SetVariance

SpecVariance == InitVariance /\ [][NextVariance]_vars

(***************************************************************************)
(* search_youtube_music_track studied alone                                *)
(***************************************************************************)
MaxResults == 3

\* the results ytmusic.search can rank
SearchResults ==
    { Song("abc12345678", Some(<< "3", ":", "4", "5" >>)),
      Song("xyz98765432", Some(<< "1", ":", "0", "2", ":", "0", "3" >>)),
      Video("vid00000001"),
      Result(Some("album"), Some(Vid("alb00000005")), None, None),
      Result(None, Some(Vid("nop00000002")), Some(<< Some("Artist") >>), None),
      Result(Some("song"), Some(Vid("emp00000003")), Some(<< >>),
             Some(<< "3", ":", "4", "5" >>)),
      Result(Some("song"), Some(Vid("def00000004")), None,
             Some(<< "3", ":", "x" >>)),
      Result(Some("song"), Some(NullVid), Some(<< None >>),
             Some(<< "4", "5" >>)),
      [ Song("ttl00000006", None) EXCEPT !.title = None ] }

SearchResultLists == UNION { [ 1..n -> SearchResults ] : n \in 0..MaxResults }

\* one call of search_youtube_music_track(ytmusic, "A", "X")
InitSearch ==
    /\ pc = "search"
    /\ error = ""
    /\ variance_opt = None
    /\ env_variance = None
    /\ env_variance_mode = None
    /\ tracks = << Track("A", "X", Some(190000)) >>
    /\ variance_amount = None
    /\ variance_mode = "seconds"
    /\ i = 1
    /\ video_ids = << >>
    /\ unmatched_tracks = << >>
    /\ duration_mismatches = << >>
    /\ duration_skipped = << >>
    /\ yt_playlist_id = None
    /\ valid_video_ids = << >>
    /\ batch_i = 0
    /\ searchLog = << >>
    /\ createLog = << >>
    /\ addLog = << >>
    /\ search_response \in
           { SearchFails } \cup { Answer(rs) : rs \in SearchResultLists }
    /\ search_outcome = Returned(None)
    /\ CacheIdle

SearchAlone ==
    /\ pc = "search"
    /\ searchLog' = Append(searchLog, SearchCall(search_response))
    /\ search_outcome' = search_youtube_music_track(search_response)
    /\ pc' = "searched"
    /\ UNCHANGED << error, inputVars, varianceVars, i, bucketVars,
                    yt_playlist_id, addVars, createLog, search_response,
                    cacheVars >>

NextSearch == SearchAlone

SpecSearch == InitSearch /\ [][NextSearch]_vars

(***************************************************************************)
(* add_tracks_to_playlist studied alone                                    *)
(***************************************************************************)
MaxIds == 250

\* the k-th identifier of an add-list: all valid with repeats (1), some of
\* the wrong length (2), some null or empty (3), none valid (4)
IdAt(k, pattern) ==
    LET valid == << Vid("abc12345678"), Vid("xyz98765432"), Vid("def00000004") >>
    IN  CASE pattern = 2 /\ k % 7 = 3 -> Vid("short")
          [] pattern = 3 /\ k % 5 = 1 -> NullVid
          [] pattern = 3 /\ k % 5 = 2 -> Vid("")
          [] pattern = 4 -> Vid("twelve_chars")
          [] OTHER -> valid[(k % 3) + 1]

IdLists == { [ k \in 1..n |-> IdAt(k, pattern) ] : n \in 0..MaxIds, pattern \in 1..4 }

\* one call of add_tracks_to_playlist(ytmusic, "PL1", video_ids)
InitBatch ==
    /\ pc = "add"
    /\ error = ""
    /\ variance_opt = None
    /\ env_variance = None
    /\ env_variance_mode = None
    /\ tracks = << >>
    /\ variance_amount = None
    /\ variance_mode = "seconds"
    /\ i = 1
    /\ video_ids \in IdLists
    /\ unmatched_tracks = << >>
    /\ duration_mismatches = << >>
    /\ duration_skipped = << >>
    /\ yt_playlist_id = Some("PL1")
    /\ valid_video_ids = << >>
    /\ batch_i = 0
    /\ searchLog = << >>
    /\ createLog = << >>
    /\ addLog = << >>
    /\ search_response = NoResponse
    /\ search_outcome = Returned(None)
    /\ CacheIdle

NextBatch ==
    \/ AddStart
    \/ AddBatch
    \/ Finish

SpecBatch == InitBatch /\ [][NextBatch]_vars

(***************************************************************************)
(* get_spotify_playlist studied alone: calls that follow one another       *)
(***************************************************************************)
mainVars == << pc, error, inputVars, varianceVars, i, bucketVars,
               yt_playlist_id, addVars, searchLog, createLog, searchVars >>

InitCache ==
    /\ pc = "cache"
    /\ error = ""
    /\ variance_opt = None
    /\ env_variance = None
    /\ env_variance_mode = None
    /\ tracks = << >>
    /\ variance_amount = None
    /\ variance_mode = "seconds"
    /\ i = 1
    /\ video_ids = << >>
    /\ unmatched_tracks = << >>
    /\ duration_mismatches = << >>
    /\ duration_skipped = << >>
    /\ yt_playlist_id = None
    /\ valid_video_ids = << >>
    /\ batch_i = 0
    /\ searchLog = << >>
    /\ createLog = << >>
    /\ addLog = << >>
    /\ search_response = NoResponse
    /\ search_outcome = Returned(None)
    /\ cache_file \in CacheFiles
    /\ now = 0
    /\ CallIdle

\* get_spotify_playlist(sp, playlist_id, use_cache, limit=limit) is called
CallGet ==
    /\ g_pc = "idle"
    /\ use_cache' \in BOOLEAN
    /\ limit' \in Limits
    /\ source_pages' \in PageLists
    /\ fetched_playlist' = ""
    /\ fetched_tracks' = << >>
    /\ page_k' = 0
    /\ g_ret' = None
    /\ g_error' = ""
    /\ api_calls' = 0
    /\ cache_writes' = 0
    /\ g_pc' = "cache"
    /\ UNCHANGED << mainVars, cache_file, now >>

\* a variant that reads the cache file whatever use_cache is
ShouldReadCacheAlways == cache_file # None

\* use_cache and cache_file.exists()
ShouldReadCache == use_cache /\ cache_file # None

\* try to load from the cache if enabled
CacheCheck ==
    /\ g_pc = "cache"
    /\ IF ShouldReadCache
       THEN LET found == CacheLookup(cache_file.val, now)
            IN  CASE found.kind = "hit" ->
                       /\ g_ret' = Some([ playlist |-> found.playlist,
                                          tracks |-> found.tracks ])
                       /\ g_pc' = "returned"
                       /\ UNCHANGED g_error
                  [] found.kind = "raise" ->
                       /\ g_error' = found.exc
                       /\ g_pc' = "raised"
                       /\ UNCHANGED g_ret
                  [] OTHER ->
                       /\ g_pc' = "meta"
                       /\ UNCHANGED << g_ret, g_error >>
       ELSE /\ g_pc' = "meta"
            /\ UNCHANGED << g_ret, g_error >>
    /\ UNCHANGED << mainVars, cache_file, now, callVars, fetched_playlist,
                    fetched_tracks, page_k, api_calls, cache_writes >>

\* sp.playlist(playlist_id)
FetchPlaylist ==
    /\ g_pc = "meta"
    /\ api_calls' = api_calls + 1
    /\ \/ /\ fetched_playlist' \in Playlists
          /\ g_pc' = "page"
          /\ UNCHANGED g_error
       \/ /\ g_error' = "SpotifyException"
          /\ g_pc' = "raised"
          /\ UNCHANGED fetched_playlist
    /\ UNCHANGED << mainVars, cache_file, now, callVars, fetched_tracks,
                    page_k, g_ret, cache_writes >>

\* a variant that stops after the first page
FetchPageOnce ==
    /\ g_pc = "page"
    /\ page_k < Len(source_pages)
    /\ api_calls' = api_calls + 1
    /\ \/ /\ fetched_tracks' = fetched_tracks \o source_pages[page_k + 1]
          /\ page_k' = page_k + 1
          /\ g_pc' = "write"
          /\ UNCHANGED g_error
       \/ /\ g_error' = "SpotifyException"
          /\ g_pc' = "raised"
          /\ UNCHANGED << fetched_tracks, page_k >>
    /\ UNCHANGED << mainVars, cache_file, now, callVars, fetched_playlist,
                    g_ret, cache_writes >>

\* sp.playlist_tracks, then sp.next while the page names a next one
FetchPage ==
    /\ g_pc = "page"
    /\ page_k < Len(source_pages)
    /\ api_calls' = api_calls + 1
    /\ \/ /\ fetched_tracks' = fetched_tracks \o source_pages[page_k + 1]
          /\ page_k' = page_k + 1
          /\ g_pc' = IF page_k' < Len(source_pages) THEN "page" ELSE "write"
          /\ UNCHANGED g_error
       \/ /\ g_error' = "SpotifyException"
          /\ g_pc' = "raised"
          /\ UNCHANGED << fetched_tracks, page_k >>
    /\ UNCHANGED << mainVars, cache_file, now, callVars, fetched_playlist,
                    g_ret, cache_writes >>

\* the limit is applied, the cache file is written, the call returns
WriteCache ==
    /\ g_pc = "write"
    /\ LET limited == ApplyLimit(fetched_tracks, limit)
       IN  /\ cache_file' = Some(json_dump(CacheData(fetched_playlist, limited, now)))
           /\ g_ret' = Some([ playlist |-> fetched_playlist, tracks |-> limited ])
    /\ cache_writes' = cache_writes + 1
    /\ g_pc' = "returned"
    /\ UNCHANGED << mainVars, now, callVars, fetched_playlist, fetched_tracks,
                    page_k, g_error, api_calls >>

\* the caller has the result, or the exception
EndCall ==
    /\ g_pc \in { "returned", "raised" }
    /\ g_pc' = "idle"
    /\ UNCHANGED << mainVars, cache_file, now, callVars, fetched_playlist,
                    fetched_tracks, page_k, g_ret, g_error, api_calls,
                    cache_writes >>

\* a day passes
Tick ==
    /\ now < MaxNow
    /\ now' = now + 1
    /\ UNCHANGED << mainVars, cache_file, g_pc, callVars, fetched_playlist,
                    fetched_tracks, page_k, g_ret, g_error, api_calls,
                    cache_writes >>

NextCache ==
    \/ CallGet
    \/ CacheCheck
    \/ FetchPlaylist
    \/ FetchPage
    \/ WriteCache
    \/ EndCall
    \/ Tick

SpecCache == InitCache /\ [][NextCache]_vars

(***************************************************************************)
(* Properties                                                              *)
(***************************************************************************)
\* the positions of the results of type 'song', and the first such result
SongPositions(results) ==
    { k \in 1..Len(results) : results[k].resultType = Some("song") }

FirstSong(results) == results[Min(SongPositions(results))]

HasSong(response) ==
    ~response.raises /\ SongPositions(response.results) # {}

\* the search calls of the items whose loop iteration is complete, in order
IsCompleted(call) == call.item < i

Completed == SelectSeq(searchLog, IsCompleted)

\* the identifiers of the first songs of the calls that have one, in order
RECURSIVE MatchedIds(_)
MatchedIds(calls) ==
    IF calls = << >> THEN << >>
    ELSE (IF HasSong(Head(calls).response)
          THEN << FirstSong(Head(calls).response.results).videoId.val >>
          ELSE << >>) \o MatchedIds(Tail(calls))

\* the "name - artist" labels of the calls that have no song, in order
RECURSIVE UnmatchedLabels(_)
UnmatchedLabels(calls) ==
    IF calls = << >> THEN << >>
    ELSE (IF HasSong(Head(calls).response)
          THEN << >>
          ELSE << << Head(calls).query[1], " - ", Head(calls).query[3] >> >>)
         \o UnmatchedLabels(Tail(calls))

\* C1: when the search made for an item raises, the item is filed as
\* unmatched and the loop goes on to the end of the list: once the run has
\* left the loop, every item has been processed and the label of the item
\* whose search failed is in unmatched_tracks.
C1_SearchFailureIsUnmatched ==
    \A k \in 1..Len(searchLog) :
        (searchLog[k].response.raises /\ pc # "loop")
            => /\ i > Len(tracks)
               /\ << searchLog[k].query[1], " - ", searchLog[k].query[3] >>
                      \in Range(unmatched_tracks)

\* the corrupt entries: invalid JSON, a missing key, a cached_at that is no
\* timestamp
IsCorruptEntry(file) ==
    \/ ~file.valid_json
    \/ /\ file.value # None
       /\ \/ file.value.val.playlist = None
          \/ file.value.val.tracks = None
          \/ file.value.val.cached_at = None
          \/ file.value.val.cached_at.val.kind # "iso"

\* C2: with caching enabled and a corrupt cache file, a call of
\* get_spotify_playlist never ends before it has made the live fetch: it
\* neither raises because of the entry nor returns it.
C2_CorruptEntryIsCacheMiss ==
    ( /\ g_pc \in { "returned", "raised" }
      /\ use_cache
      /\ cache_file # None
      /\ IsCorruptEntry(cache_file.val) )
        => api_calls > 0

\* the number of batches of n identifiers
BatchCount(n) == (n + BatchSize - 1) \div BatchSize

\* the k-th slice of 100 of ids
Slice(ids, k) ==
    SubSeq(ids, BatchSize * (k - 1) + 1,
           IF BatchSize * k < Len(ids) THEN BatchSize * k ELSE Len(ids))

\* the attempts made so far are the first slices of ids, in order, and once
\* the function has returned there are as many attempts as slices
SubmittedInBatches(ids) ==
    /\ Len(addLog) <= BatchCount(Len(ids))
    /\ \A k \in 1..Len(addLog) : addLog[k].batch = Slice(ids, k)
    /\ pc \in { "report", "done" } => Len(addLog) = BatchCount(Len(ids))

\* C3 as stated: the identifiers of the add-list, all of them, are
\* submitted in slices of 100, whatever attempts fail.
C3_AddListSubmittedInBatches ==
    pc \in { "batch", "report", "done" } => SubmittedInBatches(video_ids)

\* C3 as amended: the valid identifiers of the add-list (the non-empty
\* strings of 11 characters), in their order, are submitted in slices of
\* 100, each exactly once, whatever attempts fail; the other identifiers are
\* never submitted.
C3_ValidIdsSubmittedInBatches ==
    pc \in { "batch", "report", "done" } =>
        LET valid(vid) == vid.isStr /\ Len(vid.s) = 11
        IN  SubmittedInBatches(SelectSeq(video_ids, valid))

C3_Witness ==
    /\ pc = "report"
    /\ Len(video_ids) = 250
    /\ Len(addLog) = 3
    /\ addLog[2].outcome = "raises"
    /\ Len(addLog[3].batch) = 50

\* C4: the add-list is the sequence of the identifiers of the matched items
\* and unmatched_tracks the sequence of the labels of the others, in source
\* order, over the processed items that carry a track; each such item has
\* one search call and so one of the two effects.
C4_ExactlyOneOutcomePerTrack ==
    LET payload == { k \in 1..(i - 1) : tracks[k].track # None }
    IN  /\ video_ids = MatchedIds(Completed)
        /\ unmatched_tracks = UnmatchedLabels(Completed)
        /\ Len(video_ids) + Len(unmatched_tracks) = Cardinality(payload)
        /\ { Completed[k].item : k \in 1..Len(Completed) } = payload
        /\ \A k \in 2..Len(Completed) :
               Completed[k - 1].item < Completed[k].item

C4_Witness ==
    /\ pc = "loop"
    /\ i = 3
    /\ Len(video_ids) = 1
    /\ Len(unmatched_tracks) = 1

\* a step of the track loop that found the item at position i
StepFound == i' = i + 1 /\ Len(video_ids') = Len(video_ids) + 1

\* the search call of that step and the candidate it selected
LastCall == searchLog'[Len(searchLog')]

Candidate == FirstSong(LastCall.response.results)

\* C5: in every step, at most one entry is added to duration_mismatches and
\* duration_skipped together, none is removed, and a step that adds one
\* appends the identifier of the same track to the add-list and adds
\* nothing to unmatched_tracks.
C5_AnomaliesAreReportOnly ==
    [][ LET dm == Len(duration_mismatches') - Len(duration_mismatches)
            ds == Len(duration_skipped') - Len(duration_skipped)
            added == (duration_mismatches' \o duration_skipped')
                         [IF dm = 1 THEN Len(duration_mismatches')
                          ELSE Len(duration_mismatches') + Len(duration_skipped')]
        IN  /\ dm >= 0 /\ ds >= 0 /\ dm + ds <= 1
            /\ SubSeq(duration_mismatches', 1, Len(duration_mismatches))
                   = duration_mismatches
            /\ SubSeq(duration_skipped', 1, Len(duration_skipped))
                   = duration_skipped
            /\ dm + ds = 1 =>
                   /\ StepFound
                   /\ video_ids' = Append(video_ids, Candidate.videoId.val)
                   /\ unmatched_tracks' = unmatched_tracks
                   /\ added.track_name = LastCall.query[1]
                   /\ added.artist_name = LastCall.query[3]
            /\ Len(unmatched_tracks') > Len(unmatched_tracks) =>
                   dm + ds = 0 /\ video_ids' = video_ids
      ]_vars

C5_Witness ==
    /\ Len(video_ids) = 2
    /\ Len(duration_mismatches) = 1
    /\ Len(duration_skipped) = 1

\* C6: create_playlist is called at most once, after the last item and with
\* a non-empty add-list; add_playlist_items is called only with the id that
\* create_playlist returned; a run whose loop matched nothing ends without
\* an error and without either call.
C6_CreateOnceAfterLoop ==
    /\ Len(createLog) <= 1
    /\ createLog # << >> =>
           /\ pc \notin { "start", "variance" }
           /\ i > Len(tracks)
           /\ video_ids # << >>
    /\ addLog # << >> =>
           /\ Len(createLog) = 1
           /\ ~createLog[1].raised
           /\ createLog[1].value # Some("")
           /\ \A k \in 1..Len(addLog) :
                  addLog[k].playlist_id = createLog[1].value
    /\ ( /\ variance_amount # None
         /\ i > Len(tracks)
         /\ video_ids = << >>
         /\ pc # "loop" )
           => /\ pc = "done"
              /\ error = ""
              /\ createLog = << >>
              /\ addLog = << >>

C6_Witness ==
    /\ pc = "done"
    /\ Len(createLog) = 1
    /\ Len(addLog) = 1
    /\ Len(unmatched_tracks) = 1

\* C7: a call of search_youtube_music_track makes one search of limit 5 and
\* returns the candidate of the first result of type 'song', or None when
\* there is no such result.
C7_FirstSongIsReturned ==
    (pc = "searched" /\ ~search_response.raises) =>
        /\ Len(searchLog) = 1
        /\ searchLog[1].limit = 5
        /\ IF SongPositions(search_response.results) = {}
           THEN search_outcome = Returned(None)
           ELSE /\ ~search_outcome.raised
                /\ search_outcome.value # None
                /\ search_outcome.value.val.videoId
                       = FirstSong(search_response.results).videoId.val

\* C8: a step that found a track whose source duration is absent or zero
\* appends the missing-Spotify-duration entry; otherwise, when the duration
\* of the candidate is absent, the missing-YouTube-duration entry; in both
\* cases duration_mismatches is unchanged; otherwise duration_skipped is.
C8_SkipPrecedence ==
    [][ StepFound =>
          LET source == tracks[i].track.val.duration_ms
              destination == duration_seconds(Candidate.duration)
              entry(reason) == [ track_name |-> LastCall.query[1],
                                 artist_name |-> LastCall.query[3],
                                 reason |-> reason ]
          IN  IF source = None \/ source.val = 0
              THEN /\ duration_skipped' =
                          Append(duration_skipped,
                                 entry("missing Spotify duration"))
                   /\ duration_mismatches' = duration_mismatches
              ELSE IF destination = None
              THEN /\ duration_skipped' =
                          Append(duration_skipped,
                                 entry("missing YouTube duration"))
                   /\ duration_mismatches' = duration_mismatches
              ELSE duration_skipped' = duration_skipped
      ]_vars

C8_Witness ==
    /\ Len(video_ids) = 2
    /\ Len(duration_skipped) = 2
    /\ duration_skipped[1].reason = "missing Spotify duration"
    /\ duration_skipped[2].reason = "missing YouTube duration"
    /\ duration_mismatches = << >>

\* destination durations, in seconds, the comparison is probed with
ProbeSeconds == 170..230

ParseableVariance ==
    { Some(<< "5" >>),
      Some(<< "5", "s" >>),
      Some(<< "5", "%" >>),
      Some(<< " ", "5", "S", " " >>),
      Some(<< "2", ".", "5", "s", "e", "c" >>),
      Some(<< "1", ".", "2", "5", "p", "e", "r", "c", "e", "n", "t" >>),
      Some(<< "0" >>),
      Some(<< "1", "0", "p", "e", "r", "c" >>),
      Some(<< "3", "s", "e", "c", "o", "n", "d", "s" >>) }

\* the values of VARIANCE_MODE that select the percent mode
PercentModeStrings ==
    { Some(<< "p", "e", "r", "c", "e", "n", "t" >>),
      Some(<< " ", "P", "e", "r", "c", "e", "n", "t", " " >>),
      Some(<< "%" >>),
      Some(<< "p", "e", "r", "c" >>) }

\* neither --variance nor VARIANCE denotes an amount
NoVarianceGiven ==
    variance_opt \notin ParseableVariance /\ env_variance \notin ParseableVariance

\* C10 as stated: the variance in effect when the track loop starts has an
\* amount, and is exactly 3.0 seconds when no given value denotes an amount.
C10_DefaultIsThreeSeconds ==
    pc = "loop" =>
        /\ variance_amount # None
        /\ NoVarianceGiven =>
               variance_amount = Some(3000) /\ variance_mode = "seconds"

\* C10 as amended: the variance in effect when the track loop starts has an
\* amount; when no given value denotes an amount, the amount is exactly 3.0
\* and the unit is seconds, unless VARIANCE_MODE selects the percent mode,
\* and then the unit is percent.
C10_DefaultIsThreeInOverriddenMode ==
    pc = "loop" =>
        /\ variance_amount # None
        /\ NoVarianceGiven =>
               /\ variance_amount = Some(3000)
               /\ variance_mode = IF env_variance_mode \in PercentModeStrings
                                  THEN "percent" ELSE "seconds"

C10_Witness ==
    /\ pc = "loop"
    /\ variance_opt = None
    /\ env_variance = Some(<< "a", "b", "c" >>)
    /\ env_variance_mode = Some(<< " ", "P", "e", "r", "c", "e", "n", "t", " " >>)
    /\ variance_amount = Some(3000)
    /\ variance_mode = "percent"

\* a cache file as a successful fetch writes it, and the time it was written
IsStoredEntry(file) ==
    /\ file.valid_json
    /\ file.value # None
    /\ file.value.val.playlist # None
    /\ file.value.val.tracks # None
    /\ file.value.val.cached_at # None
    /\ file.value.val.cached_at.val.kind = "iso"

StoredAt(file) == file.value.val.cached_at.val.t

StoredResult(file) ==
    Some([ playlist |-> file.value.val.playlist.val,
           tracks |-> file.value.val.tracks.val ])

\* the step in which a call with caching enabled examines a stored entry
ReadsStoredEntry ==
    /\ g_pc = "cache"
    /\ g_pc' # "cache"
    /\ use_cache
    /\ cache_file # None
    /\ IsStoredEntry(cache_file.val)

\* C11: a successful live fetch stores what it returns, stamped with the
\* time of the write.  A later call with caching enabled that finds the
\* stored entry less than cache_expiry_days old returns exactly the stored
\* playlist and tracks, with no call of the source API and the entry
\* unchanged; one that finds it cache_expiry_days old or older returns
\* nothing from it and goes on to the live fetch, which costs at least one
\* API call and, when it succeeds, replaces the entry with one stamped with
\* the time of the new write.
C11_CacheRoundTripAndExpiry ==
    [][ /\ (g_pc = "write" /\ g_pc' = "returned") =>
              /\ api_calls' >= 2
              /\ g_ret' # None
              /\ cache_file' = Some(json_dump(CacheData(g_ret'.val.playlist,
                                                        g_ret'.val.tracks, now)))
              /\ IsStoredEntry(cache_file'.val)
              /\ StoredAt(cache_file'.val) = now
              /\ StoredResult(cache_file'.val) = g_ret'
        /\ ReadsStoredEntry =>
              IF now - StoredAt(cache_file.val) < CacheExpiryDays
              THEN /\ g_pc' = "returned"
                   /\ g_ret' = StoredResult(cache_file.val)
                   /\ api_calls' = 0
                   /\ cache_file' = cache_file
              ELSE /\ g_pc' = "meta"
                   /\ g_ret' = None
                   /\ api_calls' = 0
        /\ (g_pc = "meta" /\ g_pc' # "meta") =>
              /\ g_pc' \in { "page", "raised" }
              /\ api_calls' = api_calls + 1
        /\ (g_pc \in { "returned", "raised" } /\ g_pc' # g_pc) =>
              /\ g_pc' = "idle"
              /\ cache_file' = cache_file
      ]_vars

\* a call six days after a fetch stored three tracks returns them from the
\* entry, with no API call
C11_Witness ==
    /\ g_pc = "returned"
    /\ use_cache
    /\ api_calls = 0
    /\ now = 8
    /\ cache_file = Some(json_dump(CacheData("P2", << "t1", "t2", "t3" >>, 2)))
    /\ g_ret = Some([ playlist |-> "P2", tracks |-> << "t1", "t2", "t3" >> ])

C13_EmptyArtistListIsUnknownArtist ==
    (pc = "searched" /\ HasSong(search_response)) =>
        LET song == FirstSong(search_response.results)
        IN  /\ song.artists = Some(<< >>) =>
                  /\ ~search_outcome.raised
                  /\ search_outcome.value # None
                  /\ search_outcome.value.val.artist = "Unknown Artist"
            /\ song.title = None =>
                  /\ ~search_outcome.raised
                  /\ search_outcome.value # None
                  /\ search_outcome.value.val.title = "Unknown Title"

\* the items of the pages, page after page
RECURSIVE Concatenation(_)
Concatenation(pages) ==
    IF pages = << >> THEN << >>
    ELSE Head(pages) \o Concatenation(Tail(pages))

\* the first limit items when a non-zero limit is given, else all of them
FirstItems(items, lim) ==
    IF lim = None \/ lim.val = 0 \/ lim.val >= Len(items) THEN items
    ELSE [ k \in 1..lim.val |-> items[k] ]

\* One step of a call, where kept is what the call is to store and return:
\* each page request that succeeds takes the next page, in order; the call
\* returns from a live fetch only by the write that follows the last page,
\* the one write of the call, which stores and returns kept; the cache file
\* changes in no other step; a call that raises has written nothing.
LiveFetchStep(kept) ==
    /\ (g_pc = "page" /\ page_k' # page_k) =>
          /\ page_k' = page_k + 1
          /\ api_calls' = api_calls + 1
          /\ fetched_tracks' = Concatenation(SubSeq(source_pages, 1, page_k'))
          /\ g_pc' = "write" <=> page_k' = Len(source_pages)
    /\ (g_pc # "returned" /\ g_pc' = "returned" /\ api_calls' > 0) =>
          /\ g_pc = "write"
          /\ page_k = Len(source_pages)
          /\ api_calls' = 1 + Len(source_pages)
          /\ cache_writes = 0
          /\ cache_writes' = 1
          /\ g_ret' = Some([ playlist |-> fetched_playlist, tracks |-> kept ])
          /\ cache_file' = Some(json_dump(CacheData(fetched_playlist, kept, now)))
    /\ (cache_file' # cache_file \/ cache_writes' > cache_writes) =>
          (g_pc = "write" /\ g_pc' = "returned")
    /\ g_pc' = "raised" =>
          /\ cache_writes' = 0
          /\ cache_file' = cache_file

\* C14 as stated: what a live fetch stores and returns is the concatenation
\* of all the pages, whatever the arguments of the call.
C14_WholeConcatenationWrittenOnce ==
    [][ LiveFetchStep(Concatenation(source_pages)) ]_vars

\* C14: a live fetch requests the pages in order until the last, then
\* writes the cache file once; what it stores and returns is the
\* concatenation of all the pages in page order, cut to its first limit
\* items when a non-zero limit is given; a call in which a request fails
\* writes nothing and leaves the cache file as it was.
C14_LimitedConcatenationWrittenOnce ==
    [][ LiveFetchStep(FirstItems(Concatenation(source_pages), limit)) ]_vars

\* a fetch of three pages, the second empty, has stored and returned their
\* three items after four API calls and one write
C14_Witness ==
    /\ g_pc = "returned"
    /\ limit = None
    /\ Len(source_pages) = 3
    /\ api_calls = 4
    /\ cache_writes = 1
    /\ g_ret = Some([ playlist |-> "P1", tracks |-> << "t2", "t2", "t1" >> ])
    /\ cache_file = Some(json_dump(CacheData("P1", << "t2", "t2", "t1" >>, now)))

====
